---- MODULE Spec2Model ----
(***************************************************************************)
(* A model of web_app.py: the Flask front end of the mockup generator.     *)
(* Strings are sequences of one-character strings, so that parsing,        *)
(* sanitising and extension tests are computed as the code computes them.  *)
(***************************************************************************)
EXTENDS Integers, Sequences, FiniteSets, TLC

(***************************************************************************)
(* Characters                                                              *)
(***************************************************************************)

\* The characters the model uses, in ASCII order.
Ascii ==
    << " ", "#", "+", "-", ".", "/",
       "0", "1", "2", "3", "4", "5", "6", "7", "8", "9",
       "A", "B", "C", "D", "E", "F", "G", "H", "I", "J", "K", "L", "M",
       "N", "O", "P", "Q", "R", "S", "T", "U", "V", "W", "X", "Y", "Z",
       "_",
       "a", "b", "c", "d", "e", "f", "g", "h", "i", "j", "k", "l", "m",
       "n", "o", "p", "q", "r", "s", "t", "u", "v", "w", "x", "y", "z" >>

Ord(c) == CHOOSE i \in 1..Len(Ascii) : Ascii[i] = c

Digits == { Ascii[i] : i \in Ord("0")..Ord("9") }
UpperCase == { Ascii[i] : i \in Ord("A")..Ord("Z") }
LowerCase == { Ascii[i] : i \in Ord("a")..Ord("z") }
Whitespace == { " " }

\* str.lower() on one character
LowerChar(c) ==
    IF c \in UpperCase THEN Ascii[Ord(c) - Ord("A") + Ord("a")] ELSE c

\* str.lower()
Lower(s) == [i \in 1..Len(s) |-> LowerChar(s[i])]

\* str.lstrip(chars)
LStrip(s, cs) ==
    IF \E i \in 1..Len(s) : s[i] \notin cs
    THEN SubSeq(s, CHOOSE i \in 1..Len(s) :
                      s[i] \notin cs /\ \A j \in 1..(i-1) : s[j] \in cs,
                Len(s))
    ELSE << >>

\* str.rstrip(chars)
RStrip(s, cs) ==
    IF \E i \in 1..Len(s) : s[i] \notin cs
    THEN SubSeq(s, 1, CHOOSE i \in 1..Len(s) :
                      s[i] \notin cs /\ \A j \in (i+1)..Len(s) : s[j] \in cs)
    ELSE << >>

\* str.strip(chars)
Strip(s, cs) == RStrip(LStrip(s, cs), cs)

\* the value of a digit of int(x, base), 36 when the character is no digit
DigitVal(c) ==
    IF c \in Digits THEN Ord(c) - Ord("0")
    ELSE IF c \in LowerCase THEN 10 + Ord(c) - Ord("a")
    ELSE IF c \in UpperCase THEN 10 + Ord(c) - Ord("A")
    ELSE 36

RECURSIVE DigitsValue(_, _)
DigitsValue(s, base) ==
    IF s = << >> THEN 0
    ELSE DigitsValue(SubSeq(s, 1, Len(s) - 1), base) * base + DigitVal(s[Len(s)])

\* A form field that is absent: form.get(name) is None.
None == << "<None>" >>

\* Python's int(x, base) on a form field: surrounding whitespace is ignored,
\* one sign is accepted, then at least one digit of the base must follow.
\* ok = FALSE stands for the ValueError / TypeError that int raises.
PyInt(x, base) ==
    IF x = None THEN [ok |-> FALSE, val |-> 0]
    ELSE
    LET t == Strip(x, Whitespace)
        signed == t # << >> /\ t[1] \in {"+", "-"}
        d == IF signed THEN Tail(t) ELSE t
    IN  IF d # << >> /\ \A i \in 1..Len(d) : DigitVal(d[i]) < base
        THEN [ok |-> TRUE,
              val |-> IF signed /\ t[1] = "-" THEN 0 - DigitsValue(d, base)
                      ELSE DigitsValue(d, base)]
        ELSE [ok |-> FALSE, val |-> 0]

(***************************************************************************)
(* allowed_file, parse_color, secure_filename                              *)
(***************************************************************************)

ALLOWED_EXTENSIONS ==
    { <<".", "p", "n", "g">>, <<".", "j", "p", "g">>, <<".", "j", "p", "e", "g">> }

\* os.path.splitext(p)[1]: from the last dot of the last path component on,
\* unless only dots precede it in that component.
SplitExt(p) ==
    LET idx == 1..Len(p)
        sepIndex == IF \E i \in idx : p[i] = "/"
                    THEN CHOOSE i \in idx : p[i] = "/" /\ \A j \in (i+1)..Len(p) : p[j] # "/"
                    ELSE 0
        dotIndex == IF \E i \in idx : p[i] = "."
                    THEN CHOOSE i \in idx : p[i] = "." /\ \A j \in (i+1)..Len(p) : p[j] # "."
                    ELSE 0
    IN  IF dotIndex > sepIndex /\ \E k \in (sepIndex+1)..(dotIndex-1) : p[k] # "."
        THEN SubSeq(p, dotIndex, Len(p))
        ELSE << >>

\* os.path.splitext(p)[0]
SplitRoot(p) == SubSeq(p, 1, Len(p) - Len(SplitExt(p)))

\* allowed_file without its extension test
allowed_file_AnyExtension(filename) == filename # << >>

allowed_file(filename) ==
    IF filename = << >> THEN FALSE
    ELSE Lower(SplitExt(filename)) \in ALLOWED_EXTENSIONS

\* The result of parse_color: ok = FALSE when it raises.
Raised == [ok |-> FALSE, color |-> << >>]
Returned(r, g, b) == [ok |-> TRUE, color |-> <<r, g, b>>]

parse_color(form) ==
    LET hex_color == Strip(IF form.hex_color = None THEN << >> ELSE form.hex_color,
                           Whitespace)
    IN  IF hex_color # << >>
        THEN LET h == LStrip(hex_color, {"#"})
             IN  IF Len(h) # 6 THEN Raised
                 ELSE LET r == PyInt(SubSeq(h, 1, 2), 16)
                          g == PyInt(SubSeq(h, 3, 4), 16)
                          b == PyInt(SubSeq(h, 5, 6), 16)
                      IN  IF r.ok /\ g.ok /\ b.ok
                          THEN Returned(r.val, g.val, b.val)
                          ELSE Raised
        ELSE LET r == PyInt(form.r, 10)
                 g == PyInt(form.g, 10)
                 b == PyInt(form.b, 10)
             IN  IF r.ok /\ g.ok /\ b.ok
                 THEN Returned(r.val, g.val, b.val)
                 ELSE Raised

\* "_".join(s.split()) on a string already stripped of surrounding whitespace
RECURSIVE JoinWords(_)
JoinWords(s) ==
    IF s = << >> THEN << >>
    ELSE IF Head(s) \in Whitespace
         THEN IF Len(s) > 1 /\ s[2] \in Whitespace
              THEN JoinWords(Tail(s))
              ELSE <<"_">> \o JoinWords(Tail(s))
         ELSE <<Head(s)>> \o JoinWords(Tail(s))

\* werkzeug's secure_filename: path separators become spaces, words are
\* joined by "_", characters outside [A-Za-z0-9_.-] are dropped, and leading
\* and trailing dots and underscores are stripped.
SafeChars == Digits \cup UpperCase \cup LowerCase \cup {"_", ".", "-"}

secure_filename(filename) ==
    LET spaced == [i \in 1..Len(filename) |->
                      IF filename[i] = "/" THEN " " ELSE filename[i]]
        joined == JoinWords(Strip(spaced, Whitespace))
        kept == SelectSeq(joined, LAMBDA c : c \in SafeChars)
    IN  Strip(kept, {".", "_"})

(***************************************************************************)
(* Bounds and inputs                                                       *)
(***************************************************************************)

\* requests in flight at the same time
NumRequests == 2
\* the most files one upload field carries
MaxFiles == 2
\* the largest height or width the detector reports
MaxDim == 1

Requests == 1..NumRequests
\* uuid4().hex of each request: all distinct, and none 0
uuid4(r) == r
UploadKinds == {"designs", "mockups", "box_mockups"}
Dims == (0 - 1)..MaxDim
Rotations == {0, 20}

Form(h, r, g, b) == [hex_color |-> h, r |-> r, g |-> g, b |-> b]

\* values of the hex_color field
HexInputs ==
    { None,
      << >>,
      << " " >>,
      << "#", "f", "f", "0", "0", "8", "0" >>,
      << " ", "F", "F", "0", "0", "8", "0", " " >>,
      << "#", "#", "0", "0", "0", "0", "0", "0" >>,
      << "#", "f", "f", "f" >>,
      << "g", "g", "0", "0", "0", "0" >>,
      << "f", "f", "0", "0", "8", "0", "0" >>,
      << "+", "1", "+", "1", "+", "1" >>,
      << "-", "1", "-", "1", "-", "1" >>,
      << "#" >> }

\* values of the r, g and b fields
ChannelInputs ==
    { None,
      << >>,
      << "0" >>,
      << "2", "5", "5" >>,
      << "2", "5", "6" >>,
      << "-", "1" >>,
      << "x" >> }

\* every form submission of the colour model
AllForms ==
    { Form(h, r, g, b) : h \in HexInputs, r \in ChannelInputs,
                         g \in {<< "0" >>, << "2", "5", "6" >>}, b \in {<< "0" >>, None} }

\* the form submissions of the request model
SomeForms ==
    { Form(<< "#", "f", "f", "0", "0", "8", "0" >>, None, None, None),
      Form(<< >>, << "2", "5", "5" >>, << "0" >>, << "0" >>),
      Form(<< >>, << "2", "5", "6" >>, << "0" >>, << "0" >>),
      Form(<< "#", "f", "f", "f" >>, << "0" >>, << "0" >>, << "0" >>),
      Form(None, None, None, None) }

\* the form submissions of the concurrent model
FewForms ==
    { Form(<< "#", "f", "f", "0", "0", "8", "0" >>, None, None, None),
      Form(<< >>, << "x" >>, << "0" >>, << "0" >>) }

\* which of request.files.getlist(kind) are empty lists
AllEmpties == [UploadKinds -> BOOLEAN]
FewEmpties == { e \in AllEmpties : ~e["designs"] /\ ~e["mockups"] }

\* filenames of uploaded parts
AllNames ==
    { << "a", ".", "p", "n", "g" >>,
      << ".", ".", "/", "a", ".", "p", "n", "g" >>,
      << "b", ".", "J", "P", "G" >>,
      << "a", ".", "g", "i", "f" >>,
      << ".", "." >>,
      << >> }

FewNames == { << "a", ".", "p", "n", "g" >>, << "a", ".", "g", "i", "f" >> }

\* what calculate_parameters may do on one file: raise, or return
\* (None, None, None, None), or return (bbox, height, width, rotation)
DetectRaise == [kind |-> "raise", bbox |-> << >>, height |-> 0, width |-> 0, rotation |-> 0]
DetectNone == [kind |-> "none", bbox |-> << >>, height |-> 0, width |-> 0, rotation |-> 0]
Detected(bbox, h, w, rot) ==
    [kind |-> "tuple", bbox |-> bbox, height |-> h, width |-> w, rotation |-> rot]

AllOutcomes ==
    { DetectRaise, DetectNone, Detected(<< >>, 1, 1, 0) }
    \cup { Detected(<<0, 0, 1, 1>>, h, w, rot) : h \in Dims, w \in Dims, rot \in Rotations }

FewOutcomes == { DetectNone, Detected(<<0, 0, 1, 1>>, 1, 1, 0) }

(***************************************************************************)
(* State                                                                   *)
(***************************************************************************)

VARIABLES
    pc,            \* where each request is in index()
    request,       \* request.method, request.form, and whether each file list is empty
    target_color,  \* index: target_color
    job_id,        \* index: job_id, 0 before uuid4 is drawn
    jobdirs,       \* the directories os.makedirs has created: <<job, kind>>
    fs,            \* the files under RUNS_DIR: [job, dir, name, by]
    saved,         \* index: saved_designs, saved_mockups, saved_boxes
    todo,          \* build_parameters: names of os.listdir(box_dir) not yet visited
    calls,         \* the calls of calculate_parameters: [filename, color, result, n]
    parameters,    \* build_parameters: parameters, entries keyed by filename
    created,       \* the calls of create_mockups: the parameters each was given
    response       \* what index() answered

vars == << pc, request, target_color, job_id, jobdirs, fs, saved, todo,
           calls, parameters, created, response >>

NoResponse == [status |-> 0, error |-> "", outputs |-> << >>, job_id |-> 0]
ErrorPage(msg) == [status |-> 400, error |-> msg, outputs |-> << >>, job_id |-> 0]
NoRequest == [method |-> "", form |-> Form(None, None, None, None),
              empty |-> [k \in UploadKinds |-> TRUE]]

Init ==
    /\ pc = [r \in Requests |-> "idle"]
    /\ request = [r \in Requests |-> NoRequest]
    /\ target_color = [r \in Requests |-> << >>]
    /\ job_id = [r \in Requests |-> 0]
    /\ jobdirs = {}
    /\ fs = {}
    /\ saved = [r \in Requests |-> [k \in UploadKinds |-> FALSE]]
    /\ todo = [r \in Requests |-> {}]
    /\ calls = [r \in Requests |-> {}]
    /\ parameters = [r \in Requests |-> {}]
    /\ created = [r \in Requests |-> << >>]
    /\ response = [r \in Requests |-> NoResponse]

(***************************************************************************)
(* The file system under RUNS_DIR                                          *)
(***************************************************************************)

\* a job directory that is RUNS_DIR itself, shared by all requests
job_dir_Shared(r) == 0

\* index: job_dir = os.path.join(RUNS_DIR, job_id)
job_dir(r) == job_id[r]

\* os.listdir(dir)
ListDir(files_, job, dir) == { f.name : f \in { g \in files_ : g.job = job /\ g.dir = dir } }

\* f.save(path), or cv2.imwrite(path): the file at that path is replaced
WriteFile(files_, job, dir, name, r) ==
    { f \in files_ : ~(f.job = job /\ f.dir = dir /\ f.name = name) }
    \cup { [job |-> job, dir |-> dir, name |-> name, by |-> r] }

\* index.save_files(files, target_dir): the loop over the uploaded parts
RECURSIVE save_files(_, _, _, _, _)
save_files(files_, uploads, job, dir, r) ==
    IF uploads = << >> THEN [fs |-> files_, saved_any |-> FALSE]
    ELSE LET f == Head(uploads)
             filename == secure_filename(f)
             skip == f = << >> \/ ~allowed_file(filename)
             rest == save_files(IF skip THEN files_
                                ELSE WriteFile(files_, job, dir, filename, r),
                                Tail(uploads), job, dir, r)
         IN  [fs |-> rest.fs, saved_any |-> rest.saved_any \/ ~skip]

\* serve_output(job_id, filename): the file sent, none for a 404
serve_output(job, filename) ==
    { f \in fs : f.job = job /\ f.dir = "output" /\ f.name = filename }

(***************************************************************************)
(* index()                                                                 *)
(***************************************************************************)

Finish(r, resp) ==
    /\ pc' = [pc EXCEPT ![r] = "done"]
    /\ response' = [response EXCEPT ![r] = resp]

Goto(r, label) ==
    /\ pc' = [pc EXCEPT ![r] = label]
    /\ UNCHANGED response

\* a client sends a request
Submit(r, forms, empties) ==
    /\ pc[r] = "idle"
    /\ \/ request' = [request EXCEPT ![r] = [NoRequest EXCEPT !.method = "GET"]]
       \/ \E form \in forms, empty \in empties :
             request' = [request EXCEPT
                            ![r] = [method |-> "POST", form |-> form, empty |-> empty]]
    /\ Goto(r, "start")
    /\ UNCHANGED << target_color, job_id, jobdirs, fs, saved, todo, calls,
                    parameters, created >>

\* lines 154-155
IndexGet(r) ==
    /\ pc[r] = "start"
    /\ request[r].method = "GET"
    /\ Finish(r, [NoResponse EXCEPT !.status = 200])
    /\ UNCHANGED << request, target_color, job_id, jobdirs, fs, saved, todo,
                    calls, parameters, created >>

\* lines 157-160
ParseColor(r) ==
    /\ pc[r] = "start"
    /\ request[r].method = "POST"
    /\ LET res == parse_color(request[r].form)
       IN  IF res.ok
           THEN /\ target_color' = [target_color EXCEPT ![r] = res.color]
                /\ Goto(r, "uploads")
           ELSE /\ Finish(r, ErrorPage("color"))
                /\ UNCHANGED target_color
    /\ UNCHANGED << request, job_id, jobdirs, fs, saved, todo, calls,
                    parameters, created >>

\* lines 162-175
CheckUploads(r) ==
    /\ pc[r] = "uploads"
    /\ IF \E k \in UploadKinds : request[r].empty[k]
       THEN Finish(r, ErrorPage("Please upload at least one file"))
       ELSE Goto(r, "mkjob")
    /\ UNCHANGED << request, target_color, job_id, jobdirs, fs, saved, todo,
                    calls, parameters, created >>

\* lines 177-187
MakeJob(r) ==
    /\ pc[r] = "mkjob"
    /\ job_id' = [job_id EXCEPT ![r] = uuid4(r)]
    /\ jobdirs' = jobdirs \cup { <<job_dir(r)', k>> : k \in UploadKinds \cup {"output"} }
    /\ Goto(r, "designs")
    /\ UNCHANGED << request, target_color, fs, saved, todo, calls, parameters,
                    created >>

NextSave(kind) ==
    CASE kind = "designs" -> "mockups"
      [] kind = "mockups" -> "box_mockups"
      [] kind = "box_mockups" -> "saved"

\* lines 202-204: one call of save_files, on a non-empty list of parts
SaveFiles(r, names) ==
    /\ pc[r] \in UploadKinds
    /\ \E n \in 1..MaxFiles : \E uploads \in [1..n -> names] :
          LET res == save_files(fs, uploads, job_dir(r), pc[r], r)
          IN  /\ fs' = res.fs
              /\ saved' = [saved EXCEPT ![r][pc[r]] = res.saved_any]
    /\ Goto(r, NextSave(pc[r]))
    /\ UNCHANGED << request, target_color, job_id, jobdirs, todo, calls, parameters,
                    created >>

\* lines 206-215, and lines 44-45 of build_parameters
CheckSaved(r) ==
    /\ pc[r] = "saved"
    /\ IF \A k \in UploadKinds : saved[r][k]
       THEN /\ todo' = [todo EXCEPT ![r] = ListDir(fs, job_dir(r), "box_mockups")]
            /\ Goto(r, "build")
       ELSE /\ Finish(r, ErrorPage("No valid image files found"))
            /\ UNCHANGED todo
    /\ UNCHANGED << request, target_color, job_id, jobdirs, fs, saved, calls,
                    parameters, created >>

\* the call log with one more call of calculate_parameters(filename, color),
\* which did o
Called(log, filename, color, o) ==
    IF \E c \in log : c.filename = filename /\ c.color = color /\ c.result = o
    THEN { IF c.filename = filename /\ c.color = color /\ c.result = o
           THEN [c EXCEPT !.n = c.n + 1] ELSE c : c \in log }
    ELSE log \cup { [filename |-> filename, color |-> color, result |-> o, n |-> 1] }

\* line 50: if bbox and height and width
Kept(o) == o.kind = "tuple" /\ o.bbox # << >> /\ o.height # 0 /\ o.width # 0

\* lines 51-56
Entry(filename, o) ==
    [filename |-> filename, bbox |-> o.bbox, height |-> o.height, width |-> o.width,
     rotation |-> o.rotation]

Keys(params) == { e.filename : e \in params }

\* lines 45-56: one iteration of the loop of build_parameters; os.listdir
\* gives the names in any order
BuildStep(r, outcomes) ==
    /\ pc[r] = "build"
    /\ \E filename \in todo[r] :
          /\ todo' = [todo EXCEPT ![r] = @ \ {filename}]
          /\ IF ~allowed_file(filename)
             THEN /\ UNCHANGED << calls, parameters >>
                  /\ Goto(r, "build")
             ELSE \E o \in outcomes :
                    /\ calls' = [calls EXCEPT ![r] = Called(@, filename, target_color[r], o)]
                    /\ IF o.kind = "raise"
                       THEN /\ Finish(r, [NoResponse EXCEPT !.status = 500])
                            /\ UNCHANGED parameters
                       ELSE /\ Goto(r, "build")
                            /\ parameters' =
                                 [parameters EXCEPT ![r] =
                                    IF Kept(o)
                                    THEN { e \in @ : e.filename # filename }
                                         \cup { Entry(filename, o) }
                                    ELSE @]
    /\ UNCHANGED << request, target_color, job_id, jobdirs, fs, saved, created >>

\* index without its test of an empty parameters map
BuildReturn_NoEmptyCheck(r) ==
    /\ pc[r] = "build"
    /\ todo[r] = {}
    /\ Goto(r, "create")
    /\ UNCHANGED << request, target_color, job_id, jobdirs, fs, saved, todo,
                    calls, parameters, created >>

\* line 57, and lines 217-227
BuildReturn(r) ==
    /\ pc[r] = "build"
    /\ todo[r] = {}
    /\ IF parameters[r] = {}
       THEN Finish(r, ErrorPage("Could not detect any target boxes"))
       ELSE Goto(r, "create")
    /\ UNCHANGED << request, target_color, job_id, jobdirs, fs, saved, todo,
                    calls, parameters, created >>

(***************************************************************************)
(* create_mockups and the listing of the outputs                           *)
(***************************************************************************)

\* the name of the image rendered from one design and one mockup
OutputName(design, mockup) == SplitRoot(design) \o <<"_">> \o mockup

\* the (design, mockup) pairs create_mockups can render: the mockup has a
\* geometry under its own filename, and the compositor refuses a geometry
\* whose width or height is not positive
Renderable(r) ==
    { p \in ListDir(fs, job_dir(r), "designs") \X ListDir(fs, job_dir(r), "mockups") :
         \E e \in parameters[r] :
            e.filename = p[2] /\ e.width > 0 /\ e.height > 0 }

RECURSIVE WriteAll(_, _, _, _)
WriteAll(files_, names, job, r) ==
    IF names = {} THEN files_
    ELSE LET n == CHOOSE x \in names : TRUE
         IN  WriteAll(WriteFile(files_, job, "output", n, r), names \ {n}, job, r)

\* line 229: create_mockups(design_dir, mockup_dir, parameters, output_dir);
\* each pair renders or is skipped
CreateMockups(r) ==
    /\ pc[r] = "create"
    /\ created' = [created EXCEPT ![r] = Append(@, parameters[r])]
    /\ \E rendered \in SUBSET Renderable(r) :
          fs' = WriteAll(fs, { OutputName(p[1], p[2]) : p \in rendered }, job_dir(r), r)
    /\ Goto(r, "list")
    /\ UNCHANGED << request, target_color, job_id, jobdirs, saved, todo, calls,
                    parameters >>

\* a <= b for strings, as Python compares them
StrLE(a, b) ==
    LET diff == { i \in 1..Len(a) : i <= Len(b) /\ a[i] # b[i] }
    IN  IF diff = {} THEN Len(a) <= Len(b)
        ELSE LET k == CHOOSE i \in diff : \A j \in diff : i <= j
             IN  Ord(a[k]) < Ord(b[k])

\* sorted(names, key=str.lower): names with equal keys stay in the order
\* os.listdir gave them, which is any order
SortedByLower(names) ==
    { s \in [1..Cardinality(names) -> names] :
         /\ \A i, j \in 1..Cardinality(names) : i # j => s[i] # s[j]
         /\ \A i \in 1..(Cardinality(names) - 1) : StrLE(Lower(s[i]), Lower(s[i+1])) }

\* index listing mockup_dir where it should list output_dir
ListOutputs_WrongDir(r) ==
    /\ pc[r] = "list"
    /\ \E outputs \in SortedByLower({ name \in ListDir(fs, job_dir(r), "mockups") :
                                        allowed_file(name) }) :
          IF outputs = << >>
          THEN Finish(r, ErrorPage("No output images were generated"))
          ELSE Finish(r, [status |-> 200, error |-> "", outputs |-> outputs,
                          job_id |-> job_id[r]])
    /\ UNCHANGED << request, target_color, job_id, jobdirs, fs, saved, todo,
                    calls, parameters, created >>

\* lines 231-252
ListOutputs(r) ==
    /\ pc[r] = "list"
    /\ \E outputs \in SortedByLower({ name \in ListDir(fs, job_dir(r), "output") :
                                        allowed_file(name) }) :
          IF outputs = << >>
          THEN Finish(r, ErrorPage("No output images were generated"))
          ELSE Finish(r, [status |-> 200, error |-> "", outputs |-> outputs,
                          job_id |-> job_id[r]])
    /\ UNCHANGED << request, target_color, job_id, jobdirs, fs, saved, todo,
                    calls, parameters, created >>

(***************************************************************************)
(* Specifications                                                          *)
(***************************************************************************)

Step(r, forms, empties, names, outcomes) ==
    \/ Submit(r, forms, empties)
    \/ IndexGet(r)
    \/ ParseColor(r)
    \/ CheckUploads(r)
    \/ MakeJob(r)
    \/ SaveFiles(r, names)
    \/ CheckSaved(r)
    \/ BuildStep(r, outcomes)
    \/ BuildReturn(r)
    \/ CreateMockups(r)
    \/ ListOutputs(r)

\* one request, with every filename and every outcome of the detector
Next == Step(1, SomeForms, AllEmpties, AllNames, AllOutcomes)
Spec == Init /\ [][Next]_vars

\* one request, with every form submission
NextColor == Step(1, AllForms, FewEmpties, FewNames, FewOutcomes)
SpecColor == Init /\ [][NextColor]_vars

\* all requests, interleaved
NextConc == \E r \in Requests : Step(r, FewForms, FewEmpties, FewNames, FewOutcomes)
SpecConc == Init /\ [][NextConc]_vars

(***************************************************************************)
(* Properties                                                              *)
(***************************************************************************)

Range(seq) == { seq[i] : i \in 1..Len(seq) }
HasAllowedExtension(name) == Lower(SplitExt(name)) \in ALLOWED_EXTENSIONS
FilesOf(r, dir) == ListDir(fs, job_id[r], dir)
BoxFiles(r) == { n \in FilesOf(r, "box_mockups") : HasAllowedExtension(n) }
\* the call of build_parameters was made and has ended, by return or by raise
BuildEnded(r) ==
    /\ pc[r] \in {"create", "list", "done"}
    /\ \A k \in UploadKinds : saved[r][k]
\* the call of build_parameters has returned its map
BuildReturned(r) ==
    /\ BuildEnded(r)
    /\ response[r].status # 500

\* C5: a POST that reached create_mockups is answered with the success page
\* (status 200, no error) listing exactly the allowed-extension files of its
\* output directory if and only if that directory holds at least one such
\* file; otherwise with the 'No output images were generated' error, 400.
C5_SuccessIffSomeOutput ==
    \A r \in Requests :
       (pc[r] = "done" /\ created[r] # << >>) =>
          LET present == { n \in FilesOf(r, "output") : HasAllowedExtension(n) }
          IN  IF present # {}
              THEN /\ response[r].status = 200
                   /\ response[r].error = ""
                   /\ response[r].job_id = job_id[r]
                   /\ Range(response[r].outputs) = present
                   /\ Len(response[r].outputs) = Cardinality(present)
              ELSE response[r] = ErrorPage("No output images were generated")

\* C5 witness: some pairs rendered, another was skipped, and the success page
\* lists the rendered ones
C5_PartialSuccess ==
    \E r \in Requests :
       /\ pc[r] = "done"
       /\ response[r].status = 200
       /\ Len(response[r].outputs) >= 1
       /\ \E p \in Renderable(r) : OutputName(p[1], p[2]) \notin Range(response[r].outputs)

\* C6: create_mockups is called at most once in a request, only after
\* build_parameters has returned (the detector has finished on every
\* box-mockup file), only with the non-empty map it returned, and never when
\* the colour was rejected, an upload list was empty, a kind has no saved
\* file, or no box was detected.
C6_DetectBeforeRender ==
    \A r \in Requests :
       /\ Len(created[r]) <= 1
       /\ created[r] # << >> =>
             /\ pc[r] \in {"list", "done"}
             /\ todo[r] = {}
             /\ created[r][1] # {}
             /\ created[r][1] = parameters[r]
             /\ \A n \in BoxFiles(r) :
                   \E c \in calls[r] : c.filename = n /\ c.result.kind # "raise"
             /\ target_color[r] # << >>
             /\ response[r].status # 500
             /\ \A k \in UploadKinds :
                   /\ ~request[r].empty[k]
                   /\ saved[r][k]
                   /\ FilesOf(r, k) # {}

\* C6 witness: create_mockups was called after the detector ran on two
\* box-mockup files and found a box in only one of them
C6_RenderAfterTwoDetections ==
    \E r \in Requests :
       /\ created[r] # << >>
       /\ Cardinality(BoxFiles(r)) = 2
       /\ \E c \in calls[r] : c.result.kind = "none"

\* Every file in a job's designs, mockups and box_mockups directories, every
\* key of the parameters map and every listed output has an extension that,
\* lower-cased, is .png, .jpg or .jpeg, so that no part with an empty
\* filename, a filename empty after sanitising or another extension is on
\* disk; save_files reports a saved file exactly when its directory holds one.
OnlyAllowedFiles ==
    /\ \A f \in fs : f.name # << >> /\ HasAllowedExtension(f.name)
    /\ \A r \in Requests :
          /\ \A n \in Keys(parameters[r]) \cup Range(response[r].outputs) :
                HasAllowedExtension(n)
          /\ \A k \in UploadKinds : saved[r][k] = (FilesOf(r, k) # {})

\* the request has been answered and one of the three kinds has no file
Answered(r) == request[r].method = "POST" /\ pc[r] = "done"
LacksAKind(r) == \E k \in UploadKinds : FilesOf(r, k) = {}

\* C9 as stated: only allow-listed files enter or leave a job, and every
\* request in which one of the three kinds has no such file is answered with
\* the 'No valid image files found' error, 400, without calling the detector.
C9_LackingKindAnsweredNoValidFiles ==
    /\ OnlyAllowedFiles
    /\ \A r \in Requests :
          (Answered(r) /\ LacksAKind(r)) =>
             /\ response[r] = ErrorPage("No valid image files found")
             /\ calls[r] = {}

\* C9 as amended: only allow-listed files enter or leave a job; a request in
\* which one of the three kinds has no such file is answered with status 400
\* without calling the detector, and the error is 'No valid image files
\* found' when the request got as far as save_files (its colour was accepted
\* and none of its upload lists was empty).
C9_OnlyAllowedFiles ==
    /\ OnlyAllowedFiles
    /\ \A r \in Requests :
          (Answered(r) /\ LacksAKind(r)) =>
             /\ response[r].status = 400
             /\ calls[r] = {}
             /\ job_id[r] # 0 => response[r] = ErrorPage("No valid image files found")
             /\ job_id[r] = 0 =>
                   response[r].error \in {"color", "Please upload at least one file"}

\* C9 witness: a request whose designs were saved and whose box-mockup
\* parts were all refused has been answered 'No valid image files found'
C9_RejectedUpload ==
    \E r \in Requests :
       /\ Answered(r)
       /\ response[r] = ErrorPage("No valid image files found")
       /\ FilesOf(r, "designs") # {}
       /\ FilesOf(r, "box_mockups") = {}

\* C10: with distinct job ids, every file lies in the job directory of the
\* request that wrote it, every name a request reads, detects on or lists is
\* a file of its own job, the outputs it shows are served from its own job,
\* and a request rejected for its colour or for an empty upload list has no
\* job directory and has written no file.
C10_RequestsIsolated ==
    /\ \A f \in fs : job_id[f.by] # 0 /\ f.job = job_id[f.by]
    /\ jobdirs = { <<job_id[r], k>> :
                     r \in { q \in Requests : job_id[q] # 0 },
                     k \in UploadKinds \cup {"output"} }
    /\ \A r, q \in Requests : (r # q /\ job_id[r] # 0) => job_id[r] # job_id[q]
    /\ \A r \in Requests :
          /\ \A n \in todo[r] \cup Keys(parameters[r]) \cup { c.filename : c \in calls[r] } :
                \E f \in fs : f.by = r /\ f.dir = "box_mockups" /\ f.name = n
          /\ \A n \in Range(response[r].outputs) :
                /\ serve_output(response[r].job_id, n) # {}
                /\ \A f \in serve_output(response[r].job_id, n) : f.by = r
          /\ response[r].error \in {"color", "Please upload at least one file"} =>
                /\ job_id[r] = 0
                /\ \A f \in fs : f.by # r

\* C10 witness: two requests have both been answered with outputs, each from
\* its own job
C10_TwoJobsServed ==
    \E r, q \in Requests :
       /\ r # q
       /\ response[r].status = 200 /\ response[r].outputs # << >>
       /\ response[q].status = 200 /\ response[q].outputs # << >>
       /\ response[r].job_id # response[q].job_id

HexDigits == Digits \cup {"a", "b", "c", "d", "e", "f", "A", "B", "C", "D", "E", "F"}
Posted(r) == request[r].method = "POST" /\ pc[r] \notin {"idle", "start"}

\* C1: every target colour that reaches build_parameters and
\* calculate_parameters has its three channels in 0..255; when parse_color
\* raises, index answers with an error, 400, and the detector is not called.
C1_TargetColorInRange ==
    \A r \in Requests :
       /\ \A c \in calls[r] : \A i \in 1..3 : c.color[i] \in 0..255
       /\ Posted(r) =>
             IF target_color[r] # << >>
             THEN \A i \in 1..3 : target_color[r][i] \in 0..255
             ELSE response[r] = ErrorPage("color") /\ calls[r] = {}

\* C2: when calculate_parameters raises on one box-mockup file, the detector
\* is still run on every other file of box_dir, and when one of those yields
\* a geometry index goes on to create_mockups.
C2_DecodeFailureSkipsOneFile ==
    \A r \in Requests :
       (pc[r] = "done" /\ \E c \in calls[r] : c.result.kind = "raise") =>
          /\ \A n \in BoxFiles(r) : \E c \in calls[r] : c.filename = n
          /\ (\E c \in calls[r] : Kept(c.result)) => created[r] # << >>

\* C3: every entry of the parameters map, and of the map given to
\* create_mockups, has width > 0 and height > 0; a detection whose width or
\* height is <= 0 has no entry.
C3_GeometryPositive ==
    \A r \in Requests :
       /\ \A e \in parameters[r] : e.width > 0 /\ e.height > 0
       /\ \A i \in 1..Len(created[r]) : \A e \in created[r][i] : e.width > 0 /\ e.height > 0
       /\ \A c \in calls[r] :
             (c.result.kind = "tuple" /\ (c.result.width <= 0 \/ c.result.height <= 0)) =>
                c.filename \notin Keys(parameters[r])

\* C4: the map build_parameters returns has as keys exactly the box-mockup
\* files for which the detector gave a non-empty bbox and a positive height
\* and width, whatever the rotation and the listing order; when a key remains
\* index does not answer 'Could not detect any target boxes' and gives
\* create_mockups exactly that map.
C4_KeysAreDetectedFiles ==
    \A r \in Requests :
       BuildReturned(r) =>
          /\ Keys(parameters[r]) =
                { c.filename : c \in { d \in calls[r] :
                     /\ d.result.kind = "tuple"
                     /\ d.result.bbox # << >>
                     /\ d.result.height > 0
                     /\ d.result.width > 0 } }
          /\ Keys(parameters[r]) # {} =>
                /\ response[r].error # "Could not detect any target boxes"
                /\ pc[r] \in {"list", "done"} => created[r] = << parameters[r] >>

\* C7: one call of build_parameters calls calculate_parameters exactly once
\* for each allowed file of box_dir, for no other file, and always with the
\* target colour parse_color returned.
C7_DetectorOncePerFile ==
    \A r \in Requests :
       /\ \A c \in calls[r] :
             /\ c.n = 1
             /\ c.color = target_color[r]
             /\ c.filename \in BoxFiles(r)
             /\ \A d \in calls[r] : d.filename = c.filename => d = c
       /\ BuildEnded(r) => \A n \in BoxFiles(r) : \E c \in calls[r] : c.filename = n

\* C8: when hex_color is not empty after trimming, parse_color returns the
\* colour of its six hex digits, or raises when what follows the leading '#'
\* is not exactly six characters or is not valid hex; the r, g and b fields
\* play no part.
C8_HexFieldDecides ==
    \A r \in Requests :
       LET hex == request[r].form.hex_color
           h == LStrip(Strip(hex, Whitespace), {"#"})
       IN  (Posted(r) /\ hex # None /\ Strip(hex, Whitespace) # << >>) =>
              IF Len(h) = 6 /\ \A i \in 1..6 : h[i] \in HexDigits
              THEN target_color[r] = << 16 * DigitVal(h[1]) + DigitVal(h[2]),
                                        16 * DigitVal(h[3]) + DigitVal(h[4]),
                                        16 * DigitVal(h[5]) + DigitVal(h[6]) >>
              ELSE target_color[r] = << >> /\ response[r] = ErrorPage("color")

\* The part of C8 that holds: with hex_color filled, the outcome of
\* parse_color is the same whatever the r, g and b fields hold.
HexTakesPrecedence ==
    \A r \in Requests :
       LET hex == request[r].form.hex_color
       IN  (Posted(r) /\ hex # None /\ Strip(hex, Whitespace) # << >>) =>
              \A x, y, z \in {None, << "0" >>, << "2", "5", "6" >>, << "x" >>} :
                 LET res == parse_color(Form(hex, x, y, z))
                 IN  IF res.ok THEN target_color[r] = res.color
                     ELSE response[r] = ErrorPage("color")

====
